---- MODULE Spec2Model ----
(***************************************************************************)
(* Model of IBA/utils.py: the WelfordEstimator class (fit, n_samples,      *)
(* mean, std, active_neurons, state_dict, load_state_dict) and the         *)
(* function to_saliency_map.                                               *)
(*                                                                         *)
(* Numbers.  A float is modelled as an exact rational <<num, den>> in      *)
(* lowest terms with den > 0; <<0, 0>> is not-a-number and <<1, 0>>,       *)
(* <<-1, 0>> are the infinities.  Rounding of float64/float32 is not       *)
(* modelled.                                                               *)
(*                                                                         *)
(* Arrays.  A numpy array is a record [shape, data] with the data in       *)
(* row-major order.  Python's None is the record None.  The only array     *)
(* the code mutates in place is _neuron_nonzero (line 50, +=), so it lives *)
(* on a heap and is held by reference; m and s are rebound to new arrays   *)
(* on every update (lines 52, 53) and are held by value.                   *)
(***************************************************************************)
EXTENDS Integers, Sequences, FiniteSets, TLC

\* ------------------------------------------------------------------ bounds
\* Largest scalar sample value fed to fit.
MaxVal == 3
\* Largest number of samples in one batch.
MaxBatch == 2
\* Total number of samples all fit calls of a run may consume.
MaxSamples == 3
\* Number of state_dict calls and of load_state_dict calls in a run.
MaxDicts == 1
MaxLoads == 1
\* Largest length of an axis, and largest number of entries, of a capacity
\* array given to to_saliency_map; largest side of a target shape.
MaxDim == 2
MaxElems == 4

\* --------------------------------------------------------------- rationals
Abs(i) == IF i < 0 THEN -i ELSE i

Sign(i) == IF i < 0 THEN -1 ELSE IF i > 0 THEN 1 ELSE 0

RECURSIVE Gcd(_, _)
Gcd(a, b) == IF b = 0 THEN a ELSE Gcd(b, a % b)

NaN == <<0, 0>>

IsNaN(a) == a = NaN

IsFinite(a) == a[2] # 0

Norm(n, d) ==
    IF d = 0 THEN <<Sign(n), 0>>
    ELSE LET g == Gcd(Abs(n), Abs(d))
             sg == Sign(d)
         IN  <<(sg * n) \div g, (sg * d) \div g>>

Int2R(i) == <<i, 1>>

RAdd(a, b) ==
    IF IsFinite(a) /\ IsFinite(b) THEN Norm(a[1] * b[2] + b[1] * a[2], a[2] * b[2])
    ELSE IF IsNaN(a) \/ IsNaN(b) THEN NaN
    ELSE IF ~IsFinite(a) /\ ~IsFinite(b) /\ a # b THEN NaN
    ELSE IF ~IsFinite(a) THEN a ELSE b

RNeg(a) == <<-a[1], a[2]>>

RSub(a, b) == RAdd(a, RNeg(b))

RMul(a, b) ==
    IF IsNaN(a) \/ IsNaN(b) THEN NaN
    ELSE Norm(a[1] * b[1], a[2] * b[2])

\* IEEE division: x/0 is an infinity, 0/0 is not-a-number.
RDiv(a, b) ==
    IF IsNaN(a) \/ IsNaN(b) THEN NaN
    ELSE IF ~IsFinite(a) /\ ~IsFinite(b) THEN NaN
    ELSE IF ~IsFinite(b) THEN <<0, 1>>
    ELSE IF b[1] = 0 THEN <<Sign(a[1]), 0>>
    ELSE Norm(a[1] * b[2] * Sign(b[1]), a[2] * Abs(b[1]))

\* a > b on finite rationals; any comparison with not-a-number is false.
RGreater(a, b) ==
    /\ IsFinite(a)
    /\ IsFinite(b)
    /\ a[1] * b[2] > b[1] * a[2]

\* ------------------------------------------------------------------ arrays
None == [none |-> TRUE]

RECURSIVE Prod(_)
Prod(sh) == IF Len(sh) = 0 THEN 1 ELSE Head(sh) * Prod(Tail(sh))

\* np.zeros(shape) and np.zeros(shape, dtype='long')
Zeros(sh) == [shape |-> sh, data |-> [i \in 1..Prod(sh) |-> Int2R(0)]]

ZerosLong(sh) == [shape |-> sh, data |-> [i \in 1..Prod(sh) |-> 0]]

\* numpy's broadcasting rule: shapes are aligned on the right and each pair
\* of dimensions must be equal or one of them 1.
Broadcastable(sa, sb) ==
    \A i \in 1..(IF Len(sa) < Len(sb) THEN Len(sa) ELSE Len(sb)) :
        LET da == sa[Len(sa) + 1 - i]
            db == sb[Len(sb) + 1 - i]
        IN  da = db \/ da = 1 \/ db = 1

BroadcastShape(sa, sb) ==
    LET n == IF Len(sa) < Len(sb) THEN Len(sb) ELSE Len(sa)
        Dim(s, i) == IF i + Len(s) - n >= 1 THEN s[i + Len(s) - n] ELSE 1
    IN  [i \in 1..n |-> IF Dim(sa, i) = 1 THEN Dim(sb, i) ELSE Dim(sa, i)]

\* Element i of array a seen through a broadcast to a shape of rank <= 1.
At(a, i) == IF Len(a.data) = 1 THEN a.data[1] ELSE a.data[i]

\* The elementwise operations +, -, * and / on two arrays of rank <= 1.
AAdd(a, b) ==
    LET sh == BroadcastShape(a.shape, b.shape)
    IN  [shape |-> sh, data |-> [i \in 1..Prod(sh) |-> RAdd(At(a, i), At(b, i))]]

ASub(a, b) ==
    LET sh == BroadcastShape(a.shape, b.shape)
    IN  [shape |-> sh, data |-> [i \in 1..Prod(sh) |-> RSub(At(a, i), At(b, i))]]

AMul(a, b) ==
    LET sh == BroadcastShape(a.shape, b.shape)
    IN  [shape |-> sh, data |-> [i \in 1..Prod(sh) |-> RMul(At(a, i), At(b, i))]]

ADiv(a, b) ==
    LET sh == BroadcastShape(a.shape, b.shape)
    IN  [shape |-> sh, data |-> [i \in 1..Prod(sh) |-> RDiv(At(a, i), At(b, i))]]

\* ------------------------------------------------------------------- state
\* The estimator objects of a run.
Est == {"A", "B"}

\* Whatever may hold a reference to a _neuron_nonzero array: the
\* estimators and the state dict the caller keeps.
Holders == Est \cup {"snap"}

\* Heap addresses; 0 is the reference None.
Addr == 1..Cardinality(Holders)

VARIABLES
    est,        \* est[e]: the fields m, s, _n_samples (n), _neuron_nonzero (nz, an address)
    heap,       \* heap[a]: the _neuron_nonzero array at address a, None when unallocated
    snap,       \* the dict returned by the latest state_dict() call, None before
    hist,       \* history: the samples that make up the stream est[e] stands for
    snapAt,     \* history: the values of snap's four fields when it was taken
    snapHist,   \* history: hist of the estimator snap was taken from, at that time
    lastCall,   \* history: what the latest call was and how it ended
    calls,      \* history: how many state_dict and load_state_dict calls were made
    paired,     \* history: the latest state_dict or load_state_dict call restored a
                \* fresh estimator from a dict of the other one, just taken
    remaining,  \* how many samples the run's input stream still holds
    sal         \* the latest to_saliency_map call: its arguments and its result

vars == <<est, heap, snap, hist, snapAt, snapHist, lastCall, calls, paired, remaining, sal>>

\* The feature shapes of the model: scalar samples and vectors of two.
Shapes == {<<>>, <<2>>}

\* A scalar sample is one of 0..MaxVal; the entries of a vector sample are
\* 0 (a neuron that is off) or 1 (a neuron that is on).
SampleVals(sh) == IF sh = <<>> THEN 0..MaxVal ELSE {0, 1}

Samples(sh) ==
    {[shape |-> sh, data |-> [i \in 1..Prod(sh) |-> Int2R(d[i])]] :
        d \in [1..Prod(sh) -> SampleVals(sh)]}

RECURSIVE SeqsUpTo(_, _)
SeqsUpTo(S, n) ==
    IF n = 0 THEN {<<>>}
    ELSE LET shorter == SeqsUpTo(S, n - 1)
         IN  shorter \cup {Append(q, v) : q \in {r \in shorter : Len(r) = n - 1}, v \in S}

\* A batch x: x.shape[1:] is x.shape, iterating x yields x.samples.
Batches ==
    UNION {{[shape |-> sh, samples |-> q] : q \in SeqsUpTo(Samples(sh), MaxBatch)} :
        sh \in Shapes}

Deref(h, a) == IF a = 0 THEN None ELSE h[a]

\* -------------------------------------------------------- WelfordEstimator
\* __init__
FreshEstimator == [m |-> None, s |-> None, n |-> 0, nz |-> 0]

\* self._neuron_nonzero += (xi != 0.)
CountNonzero(nz, xi) ==
    [shape |-> nz.shape,
     data |-> [i \in 1..Prod(nz.shape) |->
                  nz.data[i] + (IF At(xi, i) # Int2R(0) THEN 1 ELSE 0)]]

\* self.m + (xi-self.m) / (self._n_samples + 1)
UpdateMean(m, xi, n) ==
    LET k == [shape |-> <<>>, data |-> <<Int2R(n + 1)>>]
    IN  AAdd(m, ADiv(ASub(xi, m), k))

\* The update of s with both factors taken from the updated mean.
UpdateSumSqSymmetric(s, xi, m, old_m) ==
    AAdd(s, AMul(ASub(xi, m), ASub(xi, m)))

\* self.s + (xi-self.m) * (xi-old_m), self.m being the updated mean
UpdateSumSq(s, xi, m, old_m) ==
    AAdd(s, AMul(ASub(xi, m), ASub(xi, old_m)))

\* The body of the loop, on the estimator's fields with nz by value.  An
\* in-place += raises when the operands do not broadcast to the shape of
\* its left operand; the other operations raise when they do not broadcast.
FitOne(st, xi) ==
    IF st.raised THEN st
    ELSE IF ~Broadcastable(st.nz.shape, xi.shape)
            \/ BroadcastShape(st.nz.shape, xi.shape) # st.nz.shape
    THEN [st EXCEPT !.raised = TRUE]
    ELSE LET nz1 == CountNonzero(st.nz, xi)
             old_m == st.m
         IN  IF ~Broadcastable(st.m.shape, xi.shape)
             THEN [st EXCEPT !.nz = nz1, !.raised = TRUE]
             ELSE LET m1 == UpdateMean(st.m, xi, st.n)
                  IN  IF ~Broadcastable(st.s.shape, m1.shape)
                      THEN [st EXCEPT !.nz = nz1, !.m = m1, !.raised = TRUE]
                      ELSE [st EXCEPT !.nz = nz1,
                                      !.m = m1,
                                      !.s = UpdateSumSq(st.s, xi, m1, old_m),
                                      !.n = st.n + 1]

\* for xi in x: ...
RECURSIVE FitSamples(_, _)
FitSamples(st, xs) ==
    IF Len(xs) = 0 THEN st ELSE FitSamples(FitOne(st, Head(xs)), Tail(xs))

\* if self._n_samples == 0: allocate m, s and _neuron_nonzero
FitInit(st, x) ==
    IF st.n = 0
    THEN [st EXCEPT !.m = Zeros(x.shape), !.s = Zeros(x.shape), !.nz = ZerosLong(x.shape)]
    ELSE st

\* The loop of fit with the count taken per call rather than per sample.
fitCountsCalls(st, x) ==
    [FitSamples(FitInit(st, x), x.samples) EXCEPT !.n = st.n + 1]

fit(st, x) == FitSamples(FitInit(st, x), x.samples)

\* The references held, in a fixed order of the holders.
Refs(es, sn) ==
    <<es["A"].nz, es["B"].nz, IF sn = None THEN 0 ELSE sn.neuron_nonzero>>

\* Addresses carry no meaning of their own: after every call the arrays
\* still referred to are renumbered in the order of Refs, and the arrays
\* nothing refers to are dropped.
Renumber(es, sn, a) ==
    LET r == Refs(es, sn)
        first == CHOOSE i \in 1..Len(r) : r[i] = a /\ \A j \in 1..(i - 1) : r[j] # a
    IN  IF a = 0 THEN 0 ELSE Cardinality({r[j] : j \in 1..(first - 1)} \ {0}) + 1

CanonEst(es, sn) == [e \in Est |-> [es[e] EXCEPT !.nz = Renumber(es, sn, @)]]

CanonSnap(es, sn) ==
    IF sn = None THEN None ELSE [sn EXCEPT !.neuron_nonzero = Renumber(es, sn, @)]

CanonHeap(h, es, sn) ==
    LET r == Refs(es, sn)
    IN  [a \in Addr |->
            IF \E i \in 1..Len(r) : r[i] # 0 /\ Renumber(es, sn, r[i]) = a
            THEN h[CHOOSE o \in Addr : o \in {r[i] : i \in 1..Len(r)} /\ Renumber(es, sn, o) = a]
            ELSE None]

\* The address np.zeros returns: one that nothing else refers to.
FreeAddr(e) ==
    LET others == {est[f].nz : f \in Est \ {e}}
                    \cup (IF snap = None THEN {} ELSE {snap.neuron_nonzero})
        free == Addr \ others
    IN  CHOOSE a \in free : \A b \in free : a <= b

NoCall == [raised |-> FALSE, mismatch |-> FALSE, realloc |-> FALSE,
           reshaped |-> FALSE, changed |-> FALSE]

Fit(e, x) ==
    /\ Len(x.samples) <= remaining
    /\ LET pre == [m |-> est[e].m, s |-> est[e].s, n |-> est[e].n,
                   nz |-> Deref(heap, est[e].nz), raised |-> FALSE]
       IN  \E post \in {fit(pre, x)} :
           LET addr == IF est[e].n = 0 THEN FreeAddr(e) ELSE est[e].nz
               est1 == [est EXCEPT ![e] = [m |-> post.m, s |-> post.s, n |-> post.n,
                                           nz |-> addr]]
               heap1 == [heap EXCEPT ![addr] = post.nz]
           IN  /\ est' = CanonEst(est1, snap)
               /\ snap' = CanonSnap(est1, snap)
               /\ heap' = CanonHeap(heap1, est1, snap)
               /\ hist' = IF post.raised THEN hist ELSE [hist EXCEPT ![e] = @ \o x.samples]
               /\ lastCall' = [raised |-> post.raised,
                               mismatch |-> /\ est[e].n >= 1
                                            /\ Len(x.samples) >= 1
                                            /\ x.shape # est[e].m.shape,
                               realloc |-> est[e].m # None /\ est[e].n = 0,
                               reshaped |-> est[e].m # None /\ post.m.shape # est[e].m.shape,
                               changed |-> post.raised /\ [post EXCEPT !.raised = FALSE] # pre]
    /\ remaining' = remaining - Len(x.samples)
    /\ UNCHANGED <<snapAt, snapHist, calls, paired, sal>>

\* state_dict(): the dict holds the estimator's own arrays
StateDict(e) ==
    LET sn == [m |-> est[e].m, s |-> est[e].s, n_samples |-> est[e].n,
               neuron_nonzero |-> est[e].nz]
    IN  /\ calls.dicts < MaxDicts
        /\ calls' = [calls EXCEPT !.dicts = @ + 1]
        /\ snap' = CanonSnap(est, sn)
        /\ est' = CanonEst(est, sn)
        /\ heap' = CanonHeap(heap, est, sn)
        /\ snapAt' = [m |-> est[e].m, s |-> est[e].s, n_samples |-> est[e].n,
                      neuron_nonzero |-> Deref(heap, est[e].nz)]
        /\ snapHist' = hist[e]
        /\ lastCall' = NoCall
        /\ paired' = FALSE
        /\ UNCHANGED <<hist, remaining, sal>>

\* load_state_dict(state), state being the latest state dict
LoadStateDict(e) ==
    /\ snap # None
    /\ calls.loads < MaxLoads
    /\ calls' = [calls EXCEPT !.loads = @ + 1]
    /\ LET est1 == [est EXCEPT ![e] = [m |-> snap.m, s |-> snap.s, n |-> snap.n_samples,
                                       nz |-> snap.neuron_nonzero]]
       IN  /\ est' = CanonEst(est1, snap)
           /\ snap' = CanonSnap(est1, snap)
           /\ heap' = CanonHeap(heap, est1, snap)
    /\ hist' = [hist EXCEPT ![e] = snapHist]
    /\ lastCall' = NoCall
    /\ paired' = (/\ est[e] = FreshEstimator
                  /\ \E f \in Est \ {e} :
                        /\ est[f].nz = snap.neuron_nonzero
                        /\ est[f].m = snap.m
                        /\ est[f].s = snap.s
                        /\ est[f].n = snap.n_samples
                        /\ hist[f] = snapHist
                        /\ Deref(heap, snap.neuron_nonzero) = snapAt.neuron_nonzero)
    /\ UNCHANGED <<snapAt, snapHist, remaining, sal>>

SalIdle == [phase |-> "idle"]

Init ==
    /\ est = [e \in Est |-> FreshEstimator]
    /\ heap = [a \in Addr |-> None]
    /\ snap = None
    /\ hist = [e \in Est |-> <<>>]
    /\ snapAt = None
    /\ snapHist = <<>>
    /\ lastCall = NoCall
    /\ calls = [dicts |-> 0, loads |-> 0]
    /\ paired = FALSE
    /\ remaining = MaxSamples
    /\ sal = SalIdle

\* The two estimators are interchangeable: A is the one state dicts are
\* taken from, B the one they are loaded into.
Next ==
    \/ \E e \in Est, x \in Batches : Fit(e, x)
    \/ StateDict("A")
    \/ LoadStateDict("B")

\* The estimators load_state_dict was called on.
loaded == IF calls.loads > 0 THEN {"B"} ELSE {}

Spec == Init /\ [][Next]_vars

\* One fresh estimator and fit calls only.
NextFit == \E x \in Batches : Fit("A", x)

SpecFit == Init /\ [][NextFit]_vars

\* --------------------------------------------------------- to_saliency_map
\* float(np.log(2)).  The model computes in exact rationals, in which ln 2
\* has no value; 693/1000 stands for it.
Ln2 == <<693, 1000>>

\* The entries of a capacity array.
CapVals == {NaN, Int2R(0), Ln2}

CapShapes ==
    {sh \in UNION {[1..r -> 1..MaxDim] : r \in 0..3} : Prod(sh) <= MaxElems}

Capacities ==
    UNION {{[shape |-> sh, data |-> d] : d \in [1..Prod(sh) -> CapVals]} : sh \in CapShapes}

\* The shape argument: None, or a tuple.
TargetShapes ==
    {None} \cup {[tuple |-> <<h, w>>] : h, w \in 0..MaxDim}
           \cup {[tuple |-> <<1>>], [tuple |-> <<1, 1, 1>>]}

DataFormats == {"NCHW", "NHWC", "NCWH"}

\* An addition that lets not-a-number through.
PlainAdd(acc, v) == RAdd(acc, v)

\* How np.nansum accumulates: not-a-number counts as zero.
NanAdd(acc, v) == IF IsNaN(v) THEN acc ELSE RAdd(acc, v)

RECURSIVE NanFold(_, _)
NanFold(acc, vs) == IF Len(vs) = 0 THEN acc ELSE NanFold(NanAdd(acc, Head(vs)), Tail(vs))

Without(sh, k) == [j \in 1..(Len(sh) - 1) |-> IF j < k THEN sh[j] ELSE sh[j + 1]]

\* np.nansum(a, axis) for axis k (from 1) of an array of rank >= 1, the data
\* being in row-major order.
NanSum(a, k) ==
    LET n == a.shape[k]
        inner == Prod(SubSeq(a.shape, k + 1, Len(a.shape)))
        out == Without(a.shape, k)
    IN  [shape |-> out,
         data |-> [p \in 1..Prod(out) |->
                      LET o == (p - 1) \div inner
                          i == (p - 1) % inner
                      IN  NanFold(Int2R(0),
                                  [c \in 1..n |-> a.data[(o * n + (c - 1)) * inner + i + 1]])]]

\* array /= scalar and array *= scalar
DivideBy(a, f) ==
    [shape |-> a.shape, data |-> [p \in 1..Prod(a.shape) |-> RDiv(a.data[p], f)]]

MultiplyBy(a, f) ==
    [shape |-> a.shape, data |-> [p \in 1..Prod(a.shape) |-> RMul(a.data[p], f)]]

\* skimage.transform.resize(saliency_map, shape, order=1, preserve_range=True):
\* a library function, left uninterpreted.
Resize(map, sh) == [resized |-> map, shape |-> sh]

Raised == [raised |-> TRUE, value |-> None]

Returned(v) == [raised |-> FALSE, value |-> v]

to_saliency_map(capacity, shape, data_format) ==
    IF data_format \notin {"NCHW", "NHWC"} THEN Raised   \* saliency_map is unbound
    ELSE IF Len(capacity.shape) = 0 THEN Raised          \* the axis is out of bounds
    ELSE LET axis == IF data_format = "NCHW" THEN 1 ELSE Len(capacity.shape)
             bits == DivideBy(NanSum(capacity, axis), Ln2)
         IN  IF shape = None THEN Returned(bits)
             ELSE IF Len(bits.shape) # 2 THEN Raised     \* ho, wo = saliency_map.shape
             ELSE IF Len(shape.tuple) # 2 THEN Raised    \* h, w = shape
             ELSE LET ho == bits.shape[1]
                      wo == bits.shape[2]
                      h == shape.tuple[1]
                      w == shape.tuple[2]
                  IN  IF h * w = 0 THEN Raised           \* division by zero
                      ELSE Returned(Resize(MultiplyBy(bits, Norm(ho * wo, h * w)),
                                           shape.tuple))

SalCalls ==
    {[phase |-> "call", capacity |-> c, shape |-> s, data_format |-> f] :
        c \in Capacities, s \in TargetShapes, f \in DataFormats}

ToSaliencyMap ==
    /\ sal.phase = "call"
    /\ sal' = [phase |-> "done", capacity |-> sal.capacity, shape |-> sal.shape,
               data_format |-> sal.data_format,
               result |-> to_saliency_map(sal.capacity, sal.shape, sal.data_format)]
    /\ UNCHANGED <<est, heap, snap, hist, snapAt, snapHist, lastCall, calls, paired, remaining>>

InitSal ==
    /\ est = [e \in Est |-> FreshEstimator]
    /\ heap = [a \in Addr |-> None]
    /\ snap = None
    /\ hist = [e \in Est |-> <<>>]
    /\ snapAt = None
    /\ snapHist = <<>>
    /\ lastCall = NoCall
    /\ calls = [dicts |-> 0, loads |-> 0]
    /\ paired = FALSE
    /\ remaining = MaxSamples
    /\ sal \in SalCalls

SpecSal == InitSal /\ [][ToSaliencyMap]_vars

\* --------------------------------------------------------------- accessors
n_samples(e) == est[e].n

mean(e) == est[e].m

\* np.sqrt: a nonnegative real is represented by its square, [sq |-> r*r];
\* the root of a negative number or of not-a-number is not-a-number.
Sqrt(a) == IF IsFinite(a) /\ a[1] < 0 THEN [sq |-> NaN] ELSE [sq |-> a]

\* np.sqrt(self.s / (self._n_samples - 1))
std(e) ==
    [shape |-> est[e].s.shape,
     data |-> [i \in 1..Prod(est[e].s.shape) |->
                  Sqrt(RDiv(est[e].s.data[i], Int2R(est[e].n - 1)))]]

\* (self._neuron_nonzero.astype(np.float32) / self._n_samples) > threshold
active_neurons(e, threshold) ==
    LET nz == Deref(heap, est[e].nz)
    IN  [shape |-> nz.shape,
         data |-> [i \in 1..Prod(nz.shape) |->
                      RGreater(RDiv(Int2R(nz.data[i]), Int2R(est[e].n)), threshold)]]

\* ------------------------------------------- reference values for a stream
RECURSIVE SumAt(_, _)
SumAt(h, i) == IF Len(h) = 0 THEN Int2R(0) ELSE RAdd(At(Head(h), i), SumAt(Tail(h), i))

MeanAt(h, i) == RDiv(SumAt(h, i), Int2R(Len(h)))

RECURSIVE SumSqDevAt(_, _, _)
SumSqDevAt(h, mu, i) ==
    IF Len(h) = 0 THEN Int2R(0)
    ELSE LET d == RSub(At(Head(h), i), mu)
         IN  RAdd(RMul(d, d), SumSqDevAt(Tail(h), mu, i))

NonzeroAt(h, i) == Cardinality({k \in 1..Len(h) : At(h[k], i) # Int2R(0)})

Scalar(v) == [shape |-> <<>>, data |-> <<Int2R(v)>>]

\* The thresholds tried: the default 0.01, and 0.5.
Thresholds == {<<1, 100>>, <<1, 2>>}

\* The fields of the estimator that is built from nothing by one fit call
\* with the whole stream h.
Replay(h) ==
    fit([m |-> None, s |-> None, n |-> 0, nz |-> None, raised |-> FALSE],
        [shape |-> h[1].shape, samples |-> h])

Fields(e) ==
    [m |-> est[e].m, s |-> est[e].s, n |-> est[e].n, nz |-> Deref(heap, est[e].nz),
     raised |-> FALSE]

\* ------------------------------------------------------------------ claims
\* C1: after any sequence of fit calls n_samples() is the total number of
\* samples in the batches of the calls, whatever the grouping into batches.
C1_CountIsTotal == \A e \in Est : n_samples(e) = Len(hist[e])

C1_Witness ==
    \E e \in Est : n_samples(e) = 3 /\ Len(hist[e]) = 3 /\ remaining = 0

\* C2: an estimator restored from a state dict, and the estimator the dict
\* was taken from, hold after the same further fit calls the same mean, s,
\* count and nonzero count, which are those of one estimator fitted with
\* the whole stream.
C2_RestoreEquivalent ==
    paired /\ hist["A"] = hist["B"] /\ est["A"].n >= 1 =>
        /\ Fields("A") = Fields("B")
        /\ Fields("A") = Replay(hist["A"])

\* C3: a state dict is a copy: later fit calls leave its four fields as they
\* were when it was taken.
C3_SnapshotUnchanged ==
    snap # None =>
        [m |-> snap.m, s |-> snap.s, n_samples |-> snap.n_samples,
         neuron_nonzero |-> Deref(heap, snap.neuron_nonzero)] = snapAt

\* C4: once a sample has been folded in, a fit call whose batch holds samples
\* of another shape than the one inferred on the first call raises, and
\* changes nothing.
C4_MismatchRaises == lastCall.mismatch => lastCall.raised /\ ~lastCall.changed

\* C5: with n >= 1 samples folded in, mean() is their arithmetic mean and s
\* the sum of their squared deviations from it at every location, std() is
\* the root of s/(n-1) when n >= 2, and the scalar samples 1, 2, 3 give
\* mean 2, count 3, s = 2 and std 1.
C5_WelfordMoments ==
    \A e \in Est :
        /\ est[e].n >= 1 =>
              \A i \in 1..Prod(mean(e).shape) :
                  /\ mean(e).data[i] = MeanAt(hist[e], i)
                  /\ est[e].s.data[i] = SumSqDevAt(hist[e], MeanAt(hist[e], i), i)
                  /\ est[e].n >= 2 =>
                        std(e).data[i] =
                            Sqrt(RDiv(SumSqDevAt(hist[e], MeanAt(hist[e], i), i),
                                      Int2R(Len(hist[e]) - 1)))
        /\ hist[e] = <<Scalar(1), Scalar(2), Scalar(3)>> =>
              /\ mean(e) = Scalar(2)
              /\ n_samples(e) = 3
              /\ est[e].s = Scalar(2)
              /\ std(e) = [shape |-> <<>>, data |-> <<[sq |-> Int2R(1)]>>]

C5_Witness ==
    \E e \in Est : hist[e] = <<Scalar(1), Scalar(2), Scalar(3)>> /\ n_samples(e) = 3

\* C6: with n >= 1, active_neurons(t) is true exactly where the number of
\* fitted samples that were nonzero there, divided by n, exceeds t.
C6_ActiveMask ==
    \A e \in Est \ loaded : est[e].n >= 1 =>
        \A t \in Thresholds :
            LET mask == active_neurons(e, t)
            IN  /\ mask.shape = mean(e).shape
                /\ \A i \in 1..Prod(mask.shape) :
                       mask.data[i] =
                           RGreater(RDiv(Int2R(NonzeroAt(hist[e], i)), Int2R(est[e].n)), t)

\* C9: every entry of every estimator's nonzero count is at most its
\* sample count.
C9_NonzeroAtMostCount ==
    \A e \in Est : est[e].nz # 0 =>
        \A i \in 1..Prod(heap[est[e].nz].shape) : heap[est[e].nz].data[i] <= est[e].n

\* C10: once m, s and the nonzero count are allocated no fit call allocates
\* them again or changes their shape.
C10_InitializedOnce == ~lastCall.realloc /\ ~lastCall.reshaped

\* The entries of a capacity array of shape (C, H, W) or (H, W, C) along the
\* channel axis at row h, column w.
Channels(c, fmt, h, w) ==
    IF fmt = "NCHW"
    THEN [k \in 1..c.shape[1] |->
             c.data[(k - 1) * c.shape[2] * c.shape[3] + (h - 1) * c.shape[3] + w]]
    ELSE [k \in 1..c.shape[3] |->
             c.data[(h - 1) * c.shape[2] * c.shape[3] + (w - 1) * c.shape[3] + k]]

RECURSIVE SumFinite(_)
SumFinite(vs) ==
    IF Len(vs) = 0 THEN Int2R(0)
    ELSE IF IsNaN(Head(vs)) THEN SumFinite(Tail(vs))
    ELSE RAdd(Head(vs), SumFinite(Tail(vs)))

SalDone3D ==
    /\ sal.phase = "done"
    /\ sal.shape = None
    /\ sal.data_format \in {"NCHW", "NHWC"}
    /\ Len(sal.capacity.shape) = 3

\* C7: without a target shape to_saliency_map returns at every location the
\* sum over the channel axis of the entries that are numbers, divided by
\* ln 2: 0 where every channel is not-a-number, and C everywhere for an array
\* of C channels filled with ln 2.
C7_SaliencyNative ==
    SalDone3D =>
        LET c == sal.capacity
            chw == sal.data_format = "NCHW"
            H == IF chw THEN c.shape[2] ELSE c.shape[1]
            W == IF chw THEN c.shape[3] ELSE c.shape[2]
            C == IF chw THEN c.shape[1] ELSE c.shape[3]
            out == sal.result.value
        IN  /\ ~sal.result.raised
            /\ out.shape = <<H, W>>
            /\ \A h \in 1..H, w \in 1..W :
                   LET vs == Channels(c, sal.data_format, h, w)
                       v == out.data[(h - 1) * W + w]
                   IN  /\ v = RDiv(SumFinite(vs), Ln2)
                       /\ (\A k \in 1..C : IsNaN(vs[k])) => v = Int2R(0)
                       /\ (\A p \in 1..Len(c.data) : c.data[p] = Ln2) => v = Int2R(C)

C7_Witness ==
    /\ SalDone3D
    /\ sal.data_format = "NCHW"
    /\ sal.capacity = [shape |-> <<2, 1, 2>>, data |-> <<NaN, Ln2, NaN, Ln2>>]
    /\ sal.result.value = [shape |-> <<1, 2>>, data |-> <<Int2R(0), Int2R(2)>>]

\* C8: to_saliency_map raises whenever the capacity array has fewer than 2
\* dimensions and whenever a target shape is given that is not a pair of
\* positive integers.
C8_SaliencyShapeErrors ==
    sal.phase = "done" =>
        /\ Len(sal.capacity.shape) < 2 => sal.result.raised
        /\ (/\ sal.shape # None
            /\ ~(/\ Len(sal.shape.tuple) = 2
                 /\ \A j \in 1..2 : sal.shape.tuple[j] > 0)) => sal.result.raised

====
